---- MODULE Spec2Model ----
(***************************************************************************)
(* A model of install-from-github.py: the asset selector, the archive     *)
(* extractor, the resolution of the project list and the orchestrator     *)
(* loop of main.  Strings are TLA+ strings; substring tests, split, strip *)
(* and splitext are computed character by character.                      *)
(***************************************************************************)
EXTENDS Integers, Sequences, FiniteSets, TLC

VARIABLES
    pc,            \* position of the modelled run
    args,          \* argparse namespace: dev, prefer_musl, appimage, projects
    assets,        \* asset_data["assets"] handed to the selector loop
    download_url,  \* the selector loop's result
    user_projects, \* USER_PROJECTS: whether the file exists, and its lines
    projects,      \* main's resolved project list
    idx,           \* 1-based position of main's for loop
    cache,         \* CACHE_DIR: cache file name -> content
    dirs,          \* DOWNLOAD_DIR: path -> "file" or the set of entries of a directory
    binDir,        \* BINARY_DIR: basename -> path of the file last copied there
    exit_status,   \* process exit status, None while running
    archive,       \* the archive file handed to extract_archive: name, entries, valid
    runs,          \* number of extract_archive calls made
    log            \* observations of the run (what was called, and with what outcome)

vars == <<pc, args, assets, download_url, user_projects, projects, idx, cache,
          dirs, binDir, exit_status, archive, runs, log>>

None == "<None>"

\* ------------------------------------------------------------------ bounds
MaxAssets == 3
MaxRuns == 2
MaxLines == 2
MaxProjects == 2

\* --------------------------------------------------------- program constants
ACCEPT_FILTER == "64"
IGNORE_FILTER_ARCHIVE ==
    "mac|macos|darwin|apple|win|bsd|arm|aarch|ppc|i686|sha256|deb$|rpm$|apk$|sig$|proxy-linux"

\* ------------------------------------------------------------ str operations
\* Python's `sub in s`
Contains(sub, s) ==
    \E i \in 1..(Len(s) - Len(sub) + 1) : SubSeq(s, i, i + Len(sub) - 1) = sub

\* Python's s.endswith(suffix)
EndsWith(s, suffix) ==
    /\ Len(suffix) <= Len(s)
    /\ SubSeq(s, Len(s) - Len(suffix) + 1, Len(s)) = suffix

\* position of the first occurrence of the character c in s, 0 when absent
FirstIndex(s, c) ==
    IF \E i \in 1..Len(s) : SubSeq(s, i, i) = c
    THEN CHOOSE i \in 1..Len(s) :
            /\ SubSeq(s, i, i) = c
            /\ \A j \in 1..(i - 1) : SubSeq(s, j, j) # c
    ELSE 0

\* position of the last occurrence of the character c in s, 0 when absent
LastIndex(s, c) ==
    IF \E i \in 1..Len(s) : SubSeq(s, i, i) = c
    THEN CHOOSE i \in 1..Len(s) :
            /\ SubSeq(s, i, i) = c
            /\ \A j \in (i + 1)..Len(s) : SubSeq(s, j, j) # c
    ELSE 0

\* Python's s.split(sep) for a one-character sep: the set of the pieces
RECURSIVE Split(_, _)
Split(s, sep) ==
    LET k == FirstIndex(s, sep) IN
    IF k = 0 THEN {s}
    ELSE {SubSeq(s, 1, k - 1)} \cup Split(SubSeq(s, k + 1, Len(s)), sep)

\* os.path.basename
Basename(path) == SubSeq(path, LastIndex(path, "/") + 1, Len(path))

\* ---------------------------------------------------------------- selector
\* an asset of the catalog at position i, as the releases API delivers it: a name
\* and a non-empty download URL that ends in the name
Url(i, name) == "https://gh/" \o ToString(i) \o "/" \o name

Catalog(names) ==
    [i \in 1..Len(names) |-> [name |-> names[i], browser_download_url |-> Url(i, names[i])]]

Qualifies_NoReject(asset_name) == Contains(ACCEPT_FILTER, asset_name)

\* line 126: accept substring present, no piece of the ignore list present
Qualifies(asset_name) ==
    /\ Contains(ACCEPT_FILTER, asset_name)
    /\ ~ \E ignored \in Split(IGNORE_FILTER_ARCHIVE, "|") : Contains(ignored, asset_name)

\* lines 127-132: what the first qualifying asset assigns to download_url
Preference(asset_name, asset_url, prefer_musl, appimage) ==
    IF prefer_musl /\ Contains("musl", asset_name) THEN asset_url
    ELSE IF appimage /\ Contains("AppImage", asset_name) THEN asset_url
    ELSE IF ~prefer_musl /\ ~appimage THEN asset_url
    ELSE None

\* the loop without its break: every qualifying asset is examined, the last
\* assignment to download_url stands
RECURSIVE ScanAssets_NoBreak(_, _, _, _, _)
ScanAssets_NoBreak(as, i, url, prefer_musl, appimage) ==
    IF i > Len(as) THEN url
    ELSE IF Qualifies(as[i].name)
    THEN LET u == Preference(as[i].name, as[i].browser_download_url, prefer_musl, appimage)
         IN ScanAssets_NoBreak(as, i + 1, IF u = None THEN url ELSE u, prefer_musl, appimage)
    ELSE ScanAssets_NoBreak(as, i + 1, url, prefer_musl, appimage)

\* lines 122-133: the loop from position i with download_url = url so far;
\* the first qualifying asset ends the loop whatever the preference decided
RECURSIVE ScanAssets(_, _, _, _, _)
ScanAssets(as, i, url, prefer_musl, appimage) ==
    IF i > Len(as) THEN url
    ELSE IF Qualifies(as[i].name)
    THEN Preference(as[i].name, as[i].browser_download_url, prefer_musl, appimage)
    ELSE ScanAssets(as, i + 1, url, prefer_musl, appimage)

SelectAsset(as, prefer_musl, appimage) == ScanAssets(as, 1, None, prefer_musl, appimage)

\* `if download_url:`
Truthy(url) == url # None /\ url # ""

\* --------------------------------------------------------------- extractor
DOWNLOAD_DIR == "~/Downloads/install-from-github"
\* binDir models BINARY_DIR as an existing directory, so that shutil.copy puts
\* each file below it under its basename
BINARY_DIR == "~/.local/bin"

\* os.path.join(a, b) for a relative b
Join(a, b) == a \o "/" \o b

\* os.path.dirname, "" for a path without a slash
Dirname(path) == SubSeq(path, 1, LastIndex(path, "/") - 1)

\* os.path.splitext(path)[0]: the path up to the last dot of its last component,
\* the leading dots of that component not counting
Splitext(path) ==
    LET sep == LastIndex(path, "/")
        dot == LastIndex(path, ".")
    IN IF dot > sep /\ \E j \in (sep + 1)..(dot - 1) : SubSeq(path, j, j) # "."
       THEN SubSeq(path, 1, dot - 1)
       ELSE path

\* a file system entry: a regular file, or a directory holding archive entries
\* (an entry is [path, x]: its path below the directory and its X_OK bit)
RegularFile == [kind |-> "file", entries |-> {}]
Directory(entries) == [kind |-> "dir", entries |-> entries]

\* lines 93-101: the decode command chosen by suffix, None for the else branch
DecodeCmd(filename) ==
    IF EndsWith(filename, ".tar.gz") THEN "tar -xzf"
    ELSE IF EndsWith(filename, ".tar.xz") THEN "tar -xJf"
    ELSE IF EndsWith(filename, ".zip") THEN "unzip -q"
    ELSE None

\* os.walk(folder), top-down: the files of the directory itself first, then one
\* subdirectory after the other, each in the order os.listdir happens to give
WalkOrders(entries) ==
    LET paths == {e.path : e \in entries}
        n == Cardinality(paths)
    IN {w \in [1..n -> paths] :
          /\ \A i, j \in 1..n : w[i] = w[j] => i = j
          /\ \A i, j \in 1..n : (i < j /\ Dirname(w[j]) = "") => Dirname(w[i]) = ""
          /\ \A i, j, k \in 1..n :
                (i < j /\ j < k /\ Dirname(w[i]) = Dirname(w[k])) => Dirname(w[j]) = Dirname(w[i])}

\* lines 105-111: the walk in order w from position i; r holds binDir and executables
RECURSIVE CopyExecutables(_, _, _, _, _)
CopyExecutables(folder, entries, w, i, r) ==
    IF i > Len(w) THEN r
    ELSE LET full_path == Join(folder, w[i]) IN
         IF [path |-> w[i], x |-> TRUE] \in entries
         THEN CopyExecutables(folder, entries, w, i + 1,
                 [binDir |-> (Basename(full_path) :> full_path) @@ r.binDir,
                  executables |-> Append(r.executables, full_path)])
         ELSE CopyExecutables(folder, entries, w, i + 1, r)

Outcome(d, bin, raised, decoded, at_decode, executables) ==
    [dirs |-> d, binDir |-> bin, raised |-> raised, decoded |-> decoded,
     at_decode |-> at_decode, executables |-> executables]

\* lines 88-89 left out: the stale directory is kept
Rmtree_Keep(d, folder) == d

\* lines 88-89: `if os.path.exists(folder): shutil.rmtree(folder)`
Rmtree(d, folder) == [p \in DOMAIN d \ {folder} |-> d[p]]

\* line 90: os.mkdir(folder) on a path that does not exist
Mkdir(d, folder) == (folder :> Directory({})) @@ d

\* lines 86-114: the outcomes of extract_archive(filename) on the file system d and
\* the binary directory bin; arch is what the decode tool finds at filename.
\* raised is the exception that leaves the function, None when it returns.
\* A decode tool that fails is taken to have written nothing.
ExtractArchive(filename, arch, d, bin) ==
    LET folder == Splitext(filename)
        d1 == Rmtree(d, folder)
        d2 == Mkdir(d1, folder)
        d3 == [d2 EXCEPT ![folder] = Directory(@.entries \cup arch.entries)]
    IN IF folder \in DOMAIN d /\ d[folder].kind = "file"
       THEN {Outcome(d, bin, "NotADirectoryError", FALSE, {}, <<>>)}
       ELSE IF folder \in DOMAIN d1
       THEN {Outcome(d1, bin, "FileExistsError", FALSE, {}, <<>>)}
       ELSE IF DecodeCmd(filename) = None
       THEN {Outcome(d2, bin, None, FALSE, {}, <<>>)}
       ELSE IF ~(filename \in DOMAIN d2 /\ d2[filename].kind = "file" /\ arch.valid)
       THEN {Outcome(d2, bin, "CalledProcessError", TRUE, d2[folder].entries, <<>>)}
       ELSE {LET r == CopyExecutables(folder, d3[folder].entries, w, 1,
                                      [binDir |-> bin, executables |-> <<>>])
             IN Outcome(d3, r.binDir, None, TRUE, d2[folder].entries, r.executables)
             : w \in WalkOrders(d3[folder].entries)}

\* ------------------------------------------------------------ project list
CACHE_DIR == "~/.cache/install-from-github"

Whitespace == {" ", "\t", "\n", "\r"}

\* str.lstrip() and str.rstrip()
RECURSIVE LStrip(_)
LStrip(s) ==
    IF Len(s) > 0 /\ SubSeq(s, 1, 1) \in Whitespace THEN LStrip(SubSeq(s, 2, Len(s))) ELSE s

RECURSIVE RStrip(_)
RStrip(s) ==
    IF Len(s) > 0 /\ SubSeq(s, Len(s), Len(s)) \in Whitespace
    THEN RStrip(SubSeq(s, 1, Len(s) - 1))
    ELSE s

\* str.strip()
Strip(s) == RStrip(LStrip(s))

\* s.split(sep, 1)[0]
SplitFirst(s, sep) ==
    IF FirstIndex(s, sep) = 0 THEN s ELSE SubSeq(s, 1, FirstIndex(s, sep) - 1)

\* line 163: [line.strip().split('#', 1)[0] for line in f if line.strip()]
RECURSIVE ProjectLines(_)
ProjectLines(lines) ==
    IF lines = <<>> THEN <<>>
    ELSE IF Strip(Head(lines)) # ""
    THEN <<SplitFirst(Strip(Head(lines)), "#")>> \o ProjectLines(Tail(lines))
    ELSE ProjectLines(Tail(lines))

\* lines 158-163: the positional arguments, else the lines of USER_PROJECTS
ResolveProjects(positional, file) ==
    IF positional # <<>> THEN positional
    ELSE IF file.exists THEN ProjectLines(file.lines)
    ELSE <<>>

\* ------------------------------------------------------------ catalog fetch
\* str.replace(old, new) for one-character old
RECURSIVE Replace(_, _, _)
Replace(s, old, new) ==
    IF s = "" THEN ""
    ELSE (IF SubSeq(s, 1, 1) = old THEN new ELSE SubSeq(s, 1, 1))
         \o Replace(SubSeq(s, 2, Len(s)), old, new)

\* line 171
AssetFile(project) == Join(CACHE_DIR, Replace(project, "/", "_") \o "_assets.json")

\* the return value of download_asset_list with `return False` missing after
\* the error report
DownloadAssetListReturn_FailTrue(dev_mode, exists, resp) ==
    IF dev_mode /\ exists THEN "None" ELSE "True"

\* lines 66-84: the return value of download_asset_list; resp is the outcome of
\* requests.get, a status code or an exception
DownloadAssetListReturn(dev_mode, exists, resp) ==
    IF dev_mode /\ exists THEN "None"
    ELSE IF resp.raised THEN "False"
    ELSE IF resp.status_code = 200 THEN "True"
    ELSE "False"

\* line 172: `if download_asset_list(...):`
IfTrue(value) == value = "True"

\* lines 169-173: the for loop after the body of position i in a list of n
NextProject(i, n) ==
    IF i < n THEN [pc |-> "fetch", idx |-> i + 1, exit_status |-> None]
    ELSE [pc |-> "exit", idx |-> i + 1, exit_status |-> 0]

\* an exception no handler catches: the interpreter prints it and exits with 1
Uncaught(i) == [pc |-> "exit", idx |-> i, exit_status |-> 1]

\* ------------------------------------------------- values of the idle parts
NoArgs == [dev |-> FALSE, prefer_musl |-> FALSE, appimage |-> FALSE, projects |-> <<>>]
NoArchive == [name |-> "", entries |-> {}, valid |-> FALSE]
NoFile == [exists |-> FALSE, lines |-> <<>>]
NoLog == [gets |-> {}, reused |-> {}, fetch_failed |-> {}, selector |-> {}, wget |-> {},
          wget_failed |-> {}, extract |-> {}, processed |-> {}, uncaught |-> None,
          aborted_at |-> 0, cache0 |-> <<>>,
          fresh |-> <<>>, copied |-> <<>>, raised |-> <<>>, bin_after |-> <<>>]

\* ------------------------------------------ the selector on bounded catalogs
N_LINUX == "t-linux-amd64.tar.gz"
N_MUSL == "t-linux-amd64-musl.tar.gz"
N_APPIMAGE == "t-x86_64.AppImage"
N_DARWIN == "t-darwin-amd64.tar.gz"
N_SHA == "t-linux-amd64.zip.sha256"
N_DEB == "t_amd64.deb"
N_I386 == "t-linux-i386.zip"

AssetNames == {N_LINUX, N_MUSL, N_APPIMAGE, N_DARWIN, N_SHA, N_DEB, N_I386}

Catalogs == {Catalog(ns) : ns \in UNION {[1..n -> AssetNames] : n \in 0..MaxAssets}}

InitSelect ==
    /\ pc = "select"
    /\ args \in [dev : {FALSE}, prefer_musl : BOOLEAN, appimage : BOOLEAN, projects : {<<>>}]
    /\ assets \in Catalogs
    /\ download_url = None
    /\ user_projects = NoFile
    /\ projects = <<>>
    /\ idx = 0
    /\ cache = <<>>
    /\ dirs = <<>>
    /\ binDir = <<>>
    /\ exit_status = None
    /\ archive = NoArchive
    /\ runs = 0
    /\ log = NoLog

\* lines 121-133 on the catalog of the state
RunSelector ==
    /\ pc = "select"
    /\ download_url' = SelectAsset(assets, args.prefer_musl, args.appimage)
    /\ pc' = "selected"
    /\ UNCHANGED <<args, assets, user_projects, projects, idx, cache, dirs, binDir,
                   exit_status, archive, runs, log>>

NextSelect == RunSelector

SpecSelect == InitSelect /\ [][NextSelect]_vars

\* the catalog positions whose download URL the selector returned
Selected == {i \in DOMAIN assets : assets[i].browser_download_url = download_url}

\* the pieces of the default reject list, written out
RejectSubstrings ==
    {"mac", "macos", "darwin", "apple", "win", "bsd", "arm", "aarch", "ppc", "i686",
     "sha256", "deb$", "rpm$", "apk$", "sig$", "proxy-linux"}

PassesAcceptReject(name) ==
    /\ Contains("64", name)
    /\ \A r \in RejectSubstrings : ~Contains(r, name)

\* the catalog positions that pass accept/reject and whose name contains marker
Candidates(marker) ==
    {i \in DOMAIN assets : PassesAcceptReject(assets[i].name) /\ Contains(marker, assets[i].name)}

First(S) == CHOOSE i \in S : \A j \in S : i <= j

\* C1: the selector yields no asset or exactly one asset of the catalog, and a
\* yielded asset's name contains '64' and none of the reject substrings,
\* whatever the catalog and the preference flags.
C1_AtMostOneQualifyingAsset ==
    pc = "selected" =>
        /\ download_url = None \/ Cardinality(Selected) = 1
        /\ \A i \in Selected : PassesAcceptReject(assets[i].name)

C1_Witness ==
    /\ pc = "selected"
    /\ Cardinality(Selected) = 1
    /\ \E i \in DOMAIN assets : i < First(Selected) /\ Contains("64", assets[i].name)
                                /\ ~PassesAcceptReject(assets[i].name)

\* C2: with one preference flag set the selector picks the first asset in
\* catalog order that passes accept/reject and contains the flag's marker, and
\* picks none only if no such asset is in the catalog.
C2_PreferenceScansWholeCatalog ==
    /\ (pc = "selected" /\ args.prefer_musl /\ ~args.appimage) =>
          download_url = IF Candidates("musl") = {} THEN None
                         ELSE assets[First(Candidates("musl"))].browser_download_url
    /\ (pc = "selected" /\ args.appimage /\ ~args.prefer_musl) =>
          download_url = IF Candidates("AppImage") = {} THEN None
                         ELSE assets[First(Candidates("AppImage"))].browser_download_url

\* C3: with neither preference flag set the selector picks exactly the first
\* asset in catalog order that passes accept/reject, whatever else its name
\* contains, and picks none iff no asset passes.
C3_FirstQualifyingWins ==
    (pc = "selected" /\ ~args.prefer_musl /\ ~args.appimage) =>
        download_url = IF Candidates("") = {} THEN None
                       ELSE assets[First(Candidates(""))].browser_download_url

C3_Witness ==
    /\ pc = "selected" /\ ~args.prefer_musl /\ ~args.appimage
    /\ Cardinality(Candidates("")) >= 2
    /\ Selected = {First(Candidates(""))}
    /\ First(Selected) > 1
    /\ Contains("musl", assets[First(Selected)].name)

\* C4: the selector never picks an asset whose name ends in deb, rpm or apk.
C4_PackageFormatsExcluded ==
    pc = "selected" =>
        \A i \in Selected : \A suffix \in {"deb", "rpm", "apk"} :
            ~EndsWith(assets[i].name, suffix)

\* ------------------------------------- the extractor run on one archive file
E_README == [path |-> "README.md", x |-> FALSE]
E_HELPER == [path |-> "helper", x |-> TRUE]
E_TOOL == [path |-> "bin/tool", x |-> TRUE]
E_LIBTOOL == [path |-> "lib/tool", x |-> TRUE]
E_OLD == [path |-> "old", x |-> TRUE]

EntryUniverse == {E_README, E_HELPER, E_TOOL, E_LIBTOOL}

ArchiveNames ==
    {N_LINUX, "t-linux-amd64.tar.xz", "t-linux-x86_64.zip", N_APPIMAGE, "t-linux-amd64"}

\* what may lie at the destination directory's path before the first run
FolderStates(filename) ==
    {(filename :> RegularFile)}
    \cup {(filename :> RegularFile) @@ (Splitext(filename) :> f) :
            f \in {RegularFile, Directory({}), Directory({E_OLD}), Directory({E_OLD, E_README})}}

InitExtract ==
    /\ pc = "extract"
    /\ archive \in [name : {Join(DOWNLOAD_DIR, n) : n \in ArchiveNames},
                    entries : SUBSET EntryUniverse, valid : BOOLEAN]
    /\ dirs \in FolderStates(archive.name)
    /\ binDir \in {<<>>, ("tool" :> "/usr/bin/tool")}
    /\ runs = 0
    /\ log = NoLog
    /\ args = NoArgs
    /\ assets = <<>>
    /\ download_url = None
    /\ user_projects = NoFile
    /\ projects = <<>>
    /\ idx = 0
    /\ cache = <<>>
    /\ exit_status = None

\* one call extract_archive(archive.name), lines 86-114
ExtractRun ==
    /\ pc = "extract"
    /\ runs < MaxRuns
    /\ \E r \in ExtractArchive(archive.name, archive, dirs, binDir) :
          /\ dirs' = r.dirs
          /\ binDir' = r.binDir
          /\ log' = [log EXCEPT
                !.raised = Append(@, r.raised),
                !.fresh = Append(@, [existed |-> Splitext(archive.name) \in DOMAIN dirs,
                                     stale |-> IF Splitext(archive.name) \in DOMAIN dirs
                                               THEN dirs[Splitext(archive.name)].entries
                                               ELSE {},
                                     decoded |-> r.decoded, at_decode |-> r.at_decode]),
                !.copied = Append(@, {Basename(r.executables[i]) : i \in DOMAIN r.executables}),
                !.bin_after = Append(@, DOMAIN r.binDir)]
    /\ runs' = runs + 1
    /\ UNCHANGED <<pc, args, assets, download_url, user_projects, projects, idx, cache,
                   exit_status, archive>>

NextExtract == ExtractRun

SpecExtract == InitExtract /\ [][NextExtract]_vars

RecognizedSuffix(filename) ==
    \E suffix \in {".tar.gz", ".tar.xz", ".zip"} : EndsWith(filename, suffix)

\* C8: for an archive with a recognized suffix, every decoding finds the
\* destination directory freshly created and empty, and a run that follows a
\* run that did not fail does not fail either, copies the same executables
\* (those of the archive and no stale ones) and leaves the same names in the
\* binary directory.
C8_ExtractionIdempotent ==
    (pc = "extract" /\ RecognizedSuffix(archive.name)) =>
        \A k \in 1..runs :
            /\ log.fresh[k].decoded => log.fresh[k].at_decode = {}
            /\ (k > 1 /\ log.raised[k - 1] = None) =>
                  /\ log.raised[k] = None
                  /\ log.fresh[k].existed /\ log.fresh[k].decoded
                  /\ log.copied[k] = log.copied[k - 1]
                  /\ log.copied[k] = {Basename(e.path) : e \in {f \in archive.entries : f.x}}
                  /\ log.bin_after[k] = log.bin_after[k - 1]

C8_Witness ==
    /\ pc = "extract" /\ RecognizedSuffix(archive.name)
    /\ runs = 2
    /\ log.raised = <<None, None>>
    /\ E_OLD \in log.fresh[1].stale
    /\ log.copied[2] = {"tool", "helper"}
    /\ E_OLD \notin dirs[Splitext(archive.name)].entries
    /\ binDir["tool"] = Join(Splitext(archive.name), "lib/tool")

\* ------------------------------------------------------------------- main
\* lines 158-167: the project list is resolved; an empty list ends the run with 1
Resolve ==
    /\ pc = "main"
    /\ projects' = ResolveProjects(args.projects, user_projects)
    /\ IF projects' = <<>>
       THEN pc' = "exit" /\ idx' = 0 /\ exit_status' = 1
       ELSE pc' = "fetch" /\ idx' = 1 /\ exit_status' = None
    /\ UNCHANGED <<args, assets, download_url, user_projects, cache, dirs, binDir,
                   archive, runs, log>>

Goto(ctl, newlog) ==
    /\ pc' = ctl.pc
    /\ idx' = ctl.idx
    /\ exit_status' = ctl.exit_status
    /\ log' = newlog

\* the bodies a 200 response may carry: json is whether json.load accepts the
\* text as an object, assets its "assets" array
Body(names) == [json |-> TRUE, assets |-> Catalog(names)]
Garbage == [json |-> FALSE, assets |-> <<>>]
Bodies == {Garbage, Body(<<N_LINUX>>), Body(<<N_DARWIN, N_APPIMAGE>>)}

\* the outcomes of requests.get: an exception, or a response
Responses ==
    {[raised |-> TRUE, status_code |-> 0, text |-> Garbage],
     [raised |-> FALSE, status_code |-> 404, text |-> Garbage]}
    \cup {[raised |-> FALSE, status_code |-> 200, text |-> b] : b \in Bodies}

\* lines 170-172: header, asset_file, download_asset_list and the test of its result
DownloadAssetList ==
    /\ pc = "fetch"
    /\ LET project == projects[idx]
           filename == AssetFile(project)
           reuse == args.dev /\ filename \in DOMAIN cache
       IN \E resp \in Responses :
            LET ok == ~resp.raised /\ resp.status_code = 200
                ret == DownloadAssetListReturn(args.dev, filename \in DOMAIN cache, resp)
                newlog == [log EXCEPT
                    !.processed = @ \cup {idx},
                    !.reused = IF reuse THEN @ \cup {idx} ELSE @,
                    !.gets = IF reuse THEN @ ELSE @ \cup {idx},
                    !.fetch_failed = IF ~reuse /\ ~ok THEN @ \cup {idx} ELSE @]
            IN /\ cache' = IF ~reuse /\ ok THEN (filename :> resp.text) @@ cache ELSE cache
               /\ IF IfTrue(ret)
                  THEN Goto([pc |-> "install", idx |-> idx, exit_status |-> None], newlog)
                  ELSE Goto(NextProject(idx, Len(projects)), newlog)
    /\ UNCHANGED <<args, assets, download_url, user_projects, projects, dirs, binDir,
                   archive, runs>>

\* what the decode tool may find at the archive's path after wget returned 0
MainArchives ==
    {[name |-> "", entries |-> {E_TOOL, E_README}, valid |-> TRUE],
     [name |-> "", entries |-> {}, valid |-> FALSE]}

\* line 173: download_and_extract_archive, lines 116-142, with extract_archive
DownloadAndExtractArchive ==
    /\ pc = "install"
    /\ LET filename == AssetFile(projects[idx])
           next == NextProject(idx, Len(projects))
           raise(e, l) == Goto(Uncaught(idx), [l EXCEPT !.uncaught = e, !.aborted_at = idx])
       IN IF filename \notin DOMAIN cache
          THEN /\ raise("FileNotFoundError", log)
               /\ UNCHANGED <<assets, download_url, dirs, binDir>>
          ELSE IF ~cache[filename].json
          THEN /\ raise("JSONDecodeError", log)
               /\ UNCHANGED <<assets, download_url, dirs, binDir>>
          ELSE
            LET url == SelectAsset(cache[filename].assets, args.prefer_musl, args.appimage)
                archive_file == Join(DOWNLOAD_DIR, Basename(url))
                selected == [log EXCEPT !.selector = @ \cup {idx}]
                fetched == [selected EXCEPT !.wget = @ \cup {idx}]
            IN /\ assets' = cache[filename].assets
               /\ download_url' = url
               /\ IF ~Truthy(url) \/ args.dev
                  THEN Goto(next, selected) /\ UNCHANGED <<dirs, binDir>>
                  ELSE \E wget_ok \in BOOLEAN :
                     IF ~wget_ok
                     THEN /\ raise("CalledProcessError",
                                   [fetched EXCEPT !.wget_failed = @ \cup {idx}])
                          /\ UNCHANGED <<dirs, binDir>>
                     ELSE \E present \in BOOLEAN, arch \in MainArchives :
                          \E r \in ExtractArchive(archive_file, arch,
                                      IF present THEN (archive_file :> RegularFile) @@ dirs
                                      ELSE dirs, binDir) :
                             /\ dirs' = r.dirs
                             /\ binDir' = r.binDir
                             /\ IF r.raised = None
                                THEN Goto(next, [fetched EXCEPT !.extract = @ \cup {idx}])
                                ELSE raise(r.raised, [fetched EXCEPT !.extract = @ \cup {idx}])
    /\ UNCHANGED <<args, user_projects, projects, cache, archive, runs>>

MainProjects == {"a/b", "c/d"}

ProjectLists == UNION {[1..n -> MainProjects] : n \in 0..MaxProjects}

MainFiles == {NoFile, [exists |-> TRUE, lines |-> <<"c/d\n">>]}

InitMain ==
    /\ pc = "main"
    /\ args \in [dev : BOOLEAN, prefer_musl : BOOLEAN, appimage : BOOLEAN,
                 projects : ProjectLists]
    /\ user_projects \in MainFiles
    /\ cache \in {<<>>, (AssetFile("a/b") :> Body(<<N_LINUX>>))}
    /\ log = [NoLog EXCEPT !.cache0 = cache]
    /\ projects = <<>>
    /\ idx = 0
    /\ exit_status = None
    /\ assets = <<>>
    /\ download_url = None
    /\ dirs = <<>>
    /\ binDir = <<>>
    /\ archive = NoArchive
    /\ runs = 0

NextMain == Resolve \/ DownloadAssetList \/ DownloadAndExtractArchive

SpecMain == InitMain /\ [][NextMain]_vars

\* --------------------------------------- the project list on bounded files
\* lines of a project-list file, each with its line terminator
FileLines ==
    {"\n", "  \n", "a/b\n", "  a/b  \n", "a/b # tool\n", "a/b# tool\n", "# tools\n",
     "  # tools\n", "c/d", "\t#\n"}

InitResolve ==
    /\ pc = "main"
    /\ args \in [dev : {FALSE}, prefer_musl : {FALSE}, appimage : {FALSE},
                 projects : {<<>>, <<"e/f">>}]
    /\ user_projects \in {NoFile}
          \cup [exists : {TRUE}, lines : UNION {[1..n -> FileLines] : n \in 0..MaxLines}]
    /\ cache = <<>>
    /\ log = NoLog
    /\ projects = <<>>
    /\ idx = 0
    /\ exit_status = None
    /\ assets = <<>>
    /\ download_url = None
    /\ dirs = <<>>
    /\ binDir = <<>>
    /\ archive = NoArchive
    /\ runs = 0

NextResolve == Resolve

SpecResolve == InitResolve /\ [][NextResolve]_vars

\* ------------------------------------------------ claims about the main loop
\* the loop body of every position of the project list was entered
AllProcessed == \A j \in 1..Len(projects) : j \in log.processed

\* C5: a wget failure for project i aborts only project i: no extraction is
\* run for i, and once the run has ended every project after i was processed.
C5_DownloadFailureKeepsBatch ==
    \A i \in log.wget_failed :
        /\ i \notin log.extract
        /\ pc = "exit" => \A j \in (i + 1)..Len(projects) : j \in log.processed

\* C6: a failed catalog fetch for project i (a non-200 status or an exception
\* of the request) does not end the run: no selection, download or extraction
\* is made for i, no exception leaves project i's loop body, the loop goes on
\* to project i + 1, and a run that ends without an uncaught exception has
\* processed every project.
C6_FetchFailureNotFatal ==
    \A i \in log.fetch_failed :
        /\ i \notin log.selector \cup log.wget \cup log.extract
        /\ log.aborted_at # i
        /\ i < Len(projects) => (pc = "fetch" /\ idx = i + 1) \/ (i + 1) \in log.processed
        /\ i = Len(projects) => pc = "exit" /\ exit_status = 0
        /\ (pc = "exit" /\ log.uncaught = None) => AllProcessed

C6_Witness ==
    /\ pc = "exit"
    /\ exit_status = 0
    /\ Len(projects) = 2
    /\ log.fetch_failed = {1}
    /\ log.extract = {2}
    /\ "tool" \in DOMAIN binDir

\* C7: the exit status is 1 iff the resolved project list is empty.
C7_ExitStatusOneIffEmptyList ==
    pc = "exit" => (exit_status = 1 <=> projects = <<>>)

\* C9: in dev mode a project whose cache file exists issues no GET, leaves the
\* cache file unchanged and still reaches the selector.
C9_DevModeReusesCacheAndSelects ==
    \A i \in log.reused :
        /\ i \notin log.gets
        /\ cache[AssetFile(projects[i])] = log.cache0[AssetFile(projects[i])]
        /\ (idx > i \/ pc = "exit") => i \in log.selector

\* ---------------------------------------------- claims about the project list
\* the identifiers the file's lines denote: comment cut, then stripped, blank dropped
RECURSIVE DenotedProjects(_)
DenotedProjects(lines) ==
    IF lines = <<>> THEN <<>>
    ELSE LET id == Strip(SplitFirst(Head(lines), "#")) IN
         (IF id = "" THEN <<>> ELSE <<id>>) \o DenotedProjects(Tail(lines))

\* C10: without positional arguments and with the project-list file present,
\* the resolved list is the file's lines in order, comments stripped and blank
\* lines skipped: every identifier is non-empty, has no '#' and no surrounding
\* whitespace.
C10_ProjectFileCommentsAndBlanks ==
    (pc # "main" /\ args.projects = <<>> /\ user_projects.exists) =>
        /\ projects = DenotedProjects(user_projects.lines)
        /\ \A i \in DOMAIN projects :
              /\ projects[i] # ""
              /\ ~Contains("#", projects[i])
              /\ Strip(projects[i]) = projects[i]

====
